---- MODULE Spec2Model ----
(***************************************************************************)
(* Request orchestration of the Creator's Co-Pilot front end (App.jsx):    *)
(* the React state of the App component, its event handlers and the        *)
(* completions of the asynchronous operations they start (file reads and   *)
(* the two backend calls).  Every handler runs to completion on the UI     *)
(* thread; a handler that awaits is split at the await into the step that  *)
(* starts the operation and the step that runs when it completes.          *)
(***************************************************************************)
EXTENDS Integers, Sequences, FiniteSets, Bags, TLC

\* ------------------------------------------------------------------------
\* Bounds of the model
\* ------------------------------------------------------------------------
\* longest run of whitespace put before and after the words of an input
MaxPad == 1
\* how many words beyond the threshold the longest input has
MaxOver == 1
\* largest number of asynchronous operations (backend calls and file
\* selections being read) outstanding at once
MaxPending == 2

\* ------------------------------------------------------------------------
\* Program constants
\* ------------------------------------------------------------------------
WordThreshold == 50
API_BASE_URL == "http://127.0.0.1:8000"
Needle == <<"g", "i", "t", "h", "u", "b", ".", "c", "o", "m", "/">>
EmptyTextMessage == "Please provide input in the text area."
NoFilesMessage == "Please upload at least one file."
NoScriptMessage == "No script available to generate audio from."
ScriptFallback == "Failed to generate script."
AudioFallback == "Failed to generate audio."
\* message of the TypeError that fetch rejects with on a transport failure
FetchErrorMessage == "Failed to fetch"
\* message of the SyntaxError that response.json() rejects with
JsonErrorMessage == "Unexpected token < in JSON at position 0"

\* null and a present value of a useState cell
Null == <<>>
Some(x) == <<x>>

\* ------------------------------------------------------------------------
\* Strings are sequences of characters
\* ------------------------------------------------------------------------
\* the characters the regular expression \s matches
Whitespace == {" ", "\n"}

\* String.prototype.includes
Includes(s, sub) ==
  \E i \in 1..(Len(s) - Len(sub) + 1) : SubSeq(s, i, i + Len(sub) - 1) = sub

\* where the maximal runs of whitespace of s end
RunEnds(s) ==
  { j \in 1..Len(s) : s[j] \in Whitespace /\ (j = Len(s) \/ s[j + 1] \notin Whitespace) }

\* where the pieces of s begin: at its start and after every run of whitespace
PieceStarts(s) == {1} \cup { j + 1 : j \in RunEnds(s) }

\* the piece of s that begins at p: up to the next whitespace or the end
PieceAt(s, p) ==
  LET stops == { i \in p..Len(s) : s[i] \in Whitespace } \cup {Len(s) + 1}
      q == CHOOSE i \in stops : \A k \in stops : i <= k
  IN SubSeq(s, p, q - 1)

\* String.prototype.split(/\s+/): the pieces between the maximal runs of
\* whitespace, the empty pieces before a leading run and after a trailing
\* run included
Split(s) ==
  LET starts == PieceStarts(s)
      nth(k) == CHOOSE p \in starts : Cardinality({ q \in starts : q < p }) = k - 1
  IN [k \in 1..Cardinality(starts) |-> PieceAt(s, nth(k))]

\* the classification with the length rule tried before the github rule
SourceTypeOf_LengthFirst(text) ==
  IF Len(Split(text)) > WordThreshold THEN "script"
  ELSE IF Includes(text, Needle) THEN "github"
  ELSE "topic"

\* the classification of handleSubmitFromText
SourceTypeOf(text) ==
  IF Includes(text, Needle) THEN "github"
  ELSE IF Len(Split(text)) > WordThreshold THEN "script"
  ELSE "topic"

\* ------------------------------------------------------------------------
\* Inputs of the environment
\* ------------------------------------------------------------------------
Pad(k) == [i \in 1..k |-> IF i % 2 = 1 THEN " " ELSE "\n"]

FirstWord(kind) ==
  CASE kind = "github" -> Needle \o <<"x">>
    [] kind = "nearmiss" -> SubSeq(Needle, 1, Len(Needle) - 1)
    [] OTHER -> <<"w">>

\* k further words, each after one space
MoreWords(k) == [i \in 1..(2 * k) |-> IF i % 2 = 1 THEN " " ELSE "w"]

\* n words, the first of the given kind, the first two separated by a run
\* of two whitespace characters and the others by one space
Words(n, kind) ==
  IF n = 0 THEN <<>>
  ELSE IF n = 1 THEN FirstWord(kind)
  ELSE FirstWord(kind) \o <<" ", "\n", "w">> \o MoreWords(n - 2)

WordCounts == {0, 1} \cup ((WordThreshold - 1)..(WordThreshold + MaxOver))

\* what the user can have in the text area
Inputs ==
  { Pad(lead) \o Words(n, kind) \o Pad(trail) :
      lead \in 0..MaxPad, trail \in 0..MaxPad, n \in WordCounts,
      kind \in {"word", "github", "nearmiss"} }

\* what the user types while requests and reads are pending: nothing, or a
\* short topic
TypedInputs == { Words(n, "word") : n \in 0..1 }

Files ==
  { [name |-> "a.txt", text |-> "hello"], [name |-> "b.txt", text |-> "world"] }

\* event.target.files: the selected files in selection order
FileLists ==
  UNION { { fs \in [1..n -> Files] : \A i, j \in 1..n : fs[i] = fs[j] => i = j } :
          n \in 0..Cardinality(Files) }

\* bodies of a successful /generate-script response
ScriptBodies ==
  { [script |-> s, title |-> "T", description |-> "D", tags |-> <<"t">>] :
      s \in {"narration", ""} }

\* audio_url of a successful /generate-audio response
AudioPaths == {"/static/audio.wav"}

Details == {"bad topic"}

\* how a backend call can end: fetch resolves or rejects, response.ok, and
\* what response.json() yields
Outcomes(bodies) ==
  { [kind |-> "ok", body |-> b] : b \in bodies }
    \cup { [kind |-> "detail", detail |-> d] : d \in Details }
    \cup { [kind |-> k] : k \in {"nodetail", "unparseable", "transport"} }

\* ------------------------------------------------------------------------
\* State
\* ------------------------------------------------------------------------
\* userInput .. error: the useState cells of App
\* scriptReqs, audioReqs: the backend calls that have not completed (bags)
\* reads: the file selections whose Promise.all has unfinished reads (bag)
\* lastRead: how the reads of a selection went, if the last step handled
\*           the last of them
VARIABLES userInput, scriptData, audioUrl, isLoadingScript, isLoadingAudio,
          error, scriptReqs, audioReqs, reads, lastRead

vars == <<userInput, scriptData, audioUrl, isLoadingScript, isLoadingAudio,
          error, scriptReqs, audioReqs, reads, lastRead>>

uiState == <<scriptData, audioUrl, isLoadingScript, isLoadingAudio, error>>

Init ==
  /\ userInput = <<>>
  /\ scriptData = Null
  /\ audioUrl = Null
  /\ isLoadingScript = FALSE
  /\ isLoadingAudio = FALSE
  /\ error = Null
  /\ scriptReqs = EmptyBag
  /\ audioReqs = EmptyBag
  /\ reads = EmptyBag
  /\ lastRead = Null

\* ------------------------------------------------------------------------
\* File aggregation
\* ------------------------------------------------------------------------
\* what reader.onload resolves the promise of a file with
Section(file) == <<"--- CONTENT FROM ", file.name, " ---", "\n", file.text>>

\* Array.prototype.join of strings
RECURSIVE Join(_, _)
Join(parts, sep) ==
  IF Len(parts) = 0 THEN <<>>
  ELSE IF Len(parts) = 1 THEN parts[1]
  ELSE parts[1] \o sep \o Join(Tail(parts), sep)

\* the promises of one selection: one per file, in selection order, and the
\* order in which the reads have finished
NewSelection(files) ==
  [files |-> files,
   results |-> [i \in 1..Len(files) |-> [state |-> "pending"]],
   order |-> <<>>]

Settled(sel) == \A i \in 1..Len(sel.files) : sel.results[i].state # "pending"
AllResolved(sel) == \A i \in 1..Len(sel.files) : sel.results[i].state = "resolved"
AnyRejected(sel) == \E i \in 1..Len(sel.files) : sel.results[i].state = "rejected"

\* the values in the order in which the reads finished
PromiseAllValues_CompletionOrder(sel) ==
  [k \in 1..Len(sel.order) |-> sel.results[sel.order[k]].value]

\* the array Promise.all resolves with
PromiseAllValues(sel) == [i \in 1..Len(sel.files) |-> sel.results[i].value]

\* ------------------------------------------------------------------------
\* Handlers
\* ------------------------------------------------------------------------
InFlightScript == BagCardinality(scriptReqs)
InFlightAudio == BagCardinality(audioReqs)

\* whether the model lets one more asynchronous operation begin
MayBegin == InFlightScript + InFlightAudio + BagCardinality(reads) < MaxPending

\* handleGenerateScript that resets the audio flag with the results
StartScript_ResetsAudio(sourceType, content) ==
  /\ error' = Null
  /\ scriptData' = Null
  /\ audioUrl' = Null
  /\ isLoadingScript' = TRUE
  /\ isLoadingAudio' = FALSE
  /\ scriptReqs' = scriptReqs (+) SetToBag({[source_type |-> sourceType, content |-> content]})

\* handleGenerateScript that keeps the previous ScriptResult
StartScript_KeepsResult(sourceType, content) ==
  /\ error' = Null
  /\ audioUrl' = Null
  /\ isLoadingScript' = TRUE
  /\ scriptReqs' = scriptReqs (+) SetToBag({[source_type |-> sourceType, content |-> content]})
  /\ UNCHANGED <<scriptData, isLoadingAudio>>

\* handleGenerateScript up to its first await
StartScript(sourceType, content) ==
  /\ error' = Null
  /\ scriptData' = Null
  /\ audioUrl' = Null
  /\ isLoadingScript' = TRUE
  /\ scriptReqs' = scriptReqs (+) SetToBag({[source_type |-> sourceType, content |-> content]})
  /\ UNCHANGED isLoadingAudio

\* onChange of the text area and the example buttons
SetUserInput ==
  \E text \in TypedInputs :
    /\ userInput' = text
    /\ lastRead' = Null
    /\ UNCHANGED <<uiState, scriptReqs, audioReqs, reads>>

\* whether the submit button accepts a click
SubmitEnabled == ~isLoadingScript

\* handleSubmitFromText without its check of the input
handleSubmitFromText_Unchecked ==
  /\ SubmitEnabled
  /\ lastRead' = Null
  /\ MayBegin
  /\ StartScript(SourceTypeOf(userInput), userInput)
  /\ UNCHANGED <<userInput, audioReqs, reads>>

handleSubmitFromText ==
  /\ SubmitEnabled
  /\ lastRead' = Null
  /\ IF userInput = <<>>
     THEN /\ error' = Some(EmptyTextMessage)
          /\ UNCHANGED <<scriptData, audioUrl, isLoadingScript, isLoadingAudio, scriptReqs>>
     ELSE MayBegin /\ StartScript(SourceTypeOf(userInput), userInput)
  /\ UNCHANGED <<userInput, audioReqs, reads>>

\* handleFileChange up to its await
handleFileChange(files) ==
  /\ lastRead' = Null
  /\ IF Len(files) = 0
     THEN /\ error' = Some(NoFilesMessage)
          /\ UNCHANGED reads
     ELSE /\ MayBegin
          /\ reads' = reads (+) SetToBag({NewSelection(files)})
          /\ UNCHANGED error
  /\ UNCHANGED <<userInput, scriptData, audioUrl, isLoadingScript, isLoadingAudio,
                 scriptReqs, audioReqs>>

FileChanges == \E files \in FileLists : handleFileChange(files)

\* how the reads of a settled selection went: the order they finished in and
\* which of them failed
Outcome(sel) ==
  [order |-> sel.order,
   rejected |-> { i \in 1..Len(sel.files) : sel.results[i].state = "rejected" }]

\* the selection once read i has finished with the given result
Finish(sel, i, result) ==
  [sel EXCEPT !.results[i] = result, !.order = Append(@, i)]

\* reader.onload that sends what was read once every read has finished,
\* the failed reads left out
ReadLoad_Partial(sel, i) ==
  LET done == Finish(sel, i, [state |-> "resolved", value |-> Section(sel.files[i])])
      read == SelectSeq(done.results, LAMBDA r : r.state = "resolved")
  IN
  /\ sel.results[i].state = "pending"
  /\ lastRead' = IF Settled(done) THEN Some(Outcome(done)) ELSE Null
  /\ reads' = IF Settled(done) THEN reads (-) SetToBag({sel})
              ELSE (reads (-) SetToBag({sel})) (+) SetToBag({done})
  /\ IF Settled(done)
     THEN StartScript("file", Join([k \in 1..Len(read) |-> read[k].value], <<"\n", "\n">>))
     ELSE UNCHANGED <<uiState, scriptReqs>>
  /\ UNCHANGED <<userInput, audioReqs>>

\* reader.onload of file i of a selection, and, when this was the last read
\* and none failed, the rest of handleFileChange
ReadLoad(sel, i) ==
  LET done == Finish(sel, i, [state |-> "resolved", value |-> Section(sel.files[i])]) IN
  /\ sel.results[i].state = "pending"
  /\ lastRead' = IF Settled(done) THEN Some(Outcome(done)) ELSE Null
  /\ reads' = IF Settled(done) THEN reads (-) SetToBag({sel})
              ELSE (reads (-) SetToBag({sel})) (+) SetToBag({done})
  /\ IF AllResolved(done)
     THEN StartScript("file", Join(PromiseAllValues(done), <<"\n", "\n">>))
     ELSE UNCHANGED <<uiState, scriptReqs>>
  /\ UNCHANGED <<userInput, audioReqs>>

\* reader.onerror of file i of a selection: the promise of the file rejects,
\* so does Promise.all and with it handleFileChange
ReadError(sel, i) ==
  LET done == Finish(sel, i, [state |-> "rejected"]) IN
  /\ sel.results[i].state = "pending"
  /\ lastRead' = IF Settled(done) THEN Some(Outcome(done)) ELSE Null
  /\ reads' = IF Settled(done) THEN reads (-) SetToBag({sel})
              ELSE (reads (-) SetToBag({sel})) (+) SetToBag({done})
  /\ UNCHANGED <<userInput, uiState, scriptReqs, audioReqs>>

ReadLoads == \E sel \in BagToSet(reads) : \E i \in 1..Len(sel.files) : ReadLoad(sel, i)
ReadErrors == \E sel \in BagToSet(reads) : \E i \in 1..Len(sel.files) : ReadError(sel, i)

\* err.message in the catch block of a backend call
ErrorMessage(outcome, fallback) ==
  CASE outcome.kind = "detail" -> outcome.detail
    [] outcome.kind = "nodetail" -> fallback
    [] outcome.kind = "unparseable" -> JsonErrorMessage
    [] outcome.kind = "transport" -> FetchErrorMessage

\* handleGenerateScript whose flag is cleared at the end of the try block
\* instead of in a finally block
ScriptDone_NoFinally(req, outcome) ==
  /\ BagIn(req, scriptReqs)
  /\ scriptReqs' = scriptReqs (-) SetToBag({req})
  /\ lastRead' = Null
  /\ IF outcome.kind = "ok"
     THEN scriptData' = Some(outcome.body) /\ isLoadingScript' = FALSE /\ UNCHANGED error
     ELSE error' = Some(ErrorMessage(outcome, ScriptFallback))
            /\ UNCHANGED <<scriptData, isLoadingScript>>
  /\ UNCHANGED <<userInput, audioUrl, isLoadingAudio, audioReqs, reads>>

\* handleGenerateScript from its first await to its end
ScriptDone(req, outcome) ==
  /\ BagIn(req, scriptReqs)
  /\ scriptReqs' = scriptReqs (-) SetToBag({req})
  /\ lastRead' = Null
  /\ IF outcome.kind = "ok"
     THEN scriptData' = Some(outcome.body) /\ UNCHANGED error
     ELSE error' = Some(ErrorMessage(outcome, ScriptFallback)) /\ UNCHANGED scriptData
  /\ isLoadingScript' = FALSE
  /\ UNCHANGED <<userInput, audioUrl, isLoadingAudio, audioReqs, reads>>

ScriptDones ==
  \E req \in BagToSet(scriptReqs) : \E outcome \in Outcomes(ScriptBodies) :
    ScriptDone(req, outcome)

\* whether the audio button is rendered and accepts a click
AudioEnabled == scriptData # Null /\ ~isLoadingAudio

\* handleGenerateAudio without its check of the script
handleGenerateAudio_Unchecked ==
  /\ AudioEnabled
  /\ lastRead' = Null
  /\ MayBegin
  /\ error' = Null
  /\ audioUrl' = Null
  /\ isLoadingAudio' = TRUE
  /\ audioReqs' = audioReqs (+) SetToBag({[script |-> scriptData[1].script]})
  /\ UNCHANGED <<userInput, scriptData, isLoadingScript, scriptReqs, reads>>

\* handleGenerateAudio up to its first await
handleGenerateAudio ==
  /\ AudioEnabled
  /\ lastRead' = Null
  /\ IF scriptData = Null \/ scriptData[1].script = ""
     THEN /\ error' = Some(NoScriptMessage)
          /\ UNCHANGED <<audioUrl, isLoadingAudio, audioReqs>>
     ELSE /\ MayBegin
          /\ error' = Null
          /\ audioUrl' = Null
          /\ isLoadingAudio' = TRUE
          /\ audioReqs' = audioReqs (+) SetToBag({[script |-> scriptData[1].script]})
  /\ UNCHANGED <<userInput, scriptData, isLoadingScript, scriptReqs, reads>>

\* handleGenerateAudio from its first await to its end
AudioDone(req, outcome) ==
  /\ BagIn(req, audioReqs)
  /\ audioReqs' = audioReqs (-) SetToBag({req})
  /\ lastRead' = Null
  /\ IF outcome.kind = "ok"
     THEN audioUrl' = Some(<<API_BASE_URL, outcome.body>>) /\ UNCHANGED error
     ELSE error' = Some(ErrorMessage(outcome, AudioFallback)) /\ UNCHANGED audioUrl
  /\ isLoadingAudio' = FALSE
  /\ UNCHANGED <<userInput, scriptData, isLoadingScript, scriptReqs, reads>>

AudioDones ==
  \E req \in BagToSet(audioReqs) : \E outcome \in Outcomes(AudioPaths) :
    AudioDone(req, outcome)

Next ==
  \/ SetUserInput
  \/ handleSubmitFromText
  \/ FileChanges
  \/ ReadLoads
  \/ ReadErrors
  \/ ScriptDones
  \/ handleGenerateAudio
  \/ AudioDones

Spec == Init /\ [][Next]_vars

\* The backend answers every request: a completion that stays possible
\* eventually happens.  The text area keeps what the user typed at first.
InitAnswered ==
  /\ userInput \in TypedInputs
  /\ scriptData = Null
  /\ audioUrl = Null
  /\ isLoadingScript = FALSE
  /\ isLoadingAudio = FALSE
  /\ error = Null
  /\ scriptReqs = EmptyBag
  /\ audioReqs = EmptyBag
  /\ reads = EmptyBag
  /\ lastRead = Null

NextAnswered ==
  \/ handleSubmitFromText
  \/ FileChanges
  \/ ReadLoads
  \/ ReadErrors
  \/ ScriptDones
  \/ handleGenerateAudio
  \/ AudioDones

SpecAnswered ==
  InitAnswered /\ [][NextAnswered]_vars /\ WF_vars(ScriptDones) /\ WF_vars(AudioDones)

\* The text path alone, from any content of the text area: the user has
\* typed an input and submits it, and the backend answers.
InitText ==
  /\ userInput \in Inputs
  /\ scriptData = Null
  /\ audioUrl = Null
  /\ isLoadingScript = FALSE
  /\ isLoadingAudio = FALSE
  /\ error = Null
  /\ scriptReqs = EmptyBag
  /\ audioReqs = EmptyBag
  /\ reads = EmptyBag
  /\ lastRead = Null

NextText ==
  \/ handleSubmitFromText
  \/ ScriptDones

SpecText == InitText /\ [][NextText]_vars


\* ------------------------------------------------------------------------
\* Properties
\* ------------------------------------------------------------------------
\* C1: in every reachable state at most one script-generation request and at
\* most one audio-generation request is in flight.
C1_AtMostOneInFlight == InFlightScript <= 1 /\ InFlightAudio <= 1

\* C2: in every reachable state where a script-generation request is in
\* flight, scriptData is null and audioUrl is null.
C2_NoStaleResultWhilePending ==
  InFlightScript > 0 => scriptData = Null /\ audioUrl = Null

\* C3: the state right after a successful completion of a /generate-script
\* request has scriptData equal to the response, no audioUrl and no error.
C3_SuccessReplacesAll ==
  [][ \A req \in BagToSet(scriptReqs) : \A outcome \in Outcomes(ScriptBodies) :
        (ScriptDone(req, outcome) /\ outcome.kind = "ok") =>
          /\ scriptData' = Some(outcome.body)
          /\ audioUrl' = Null
          /\ error' = Null
    ]_vars

\* the message C4 expects of a failed call: the detail of the response when
\* it has one, the fallback of the operation otherwise
ExpectedMessage(outcome, fallback) ==
  IF outcome.kind = "detail" THEN outcome.detail ELSE fallback

\* C4: the state right after a failed script- or audio-generation request
\* holds, as error, the detail of the response when it supplies one and the
\* generic fallback of the operation otherwise.
C4_DetailOrFallback ==
  [][ /\ \A req \in BagToSet(scriptReqs) : \A outcome \in Outcomes(ScriptBodies) :
           (ScriptDone(req, outcome) /\ outcome.kind # "ok") =>
             error' = Some(ExpectedMessage(outcome, ScriptFallback))
      /\ \A req \in BagToSet(audioReqs) : \A outcome \in Outcomes(AudioPaths) :
           (AudioDone(req, outcome) /\ outcome.kind # "ok") =>
             error' = Some(ExpectedMessage(outcome, AudioFallback))
    ]_vars

\* C5: a submit of an empty text area, and a file-selection event with no
\* files, issue no request, start no read and set the validation message of
\* the handler.
C5_EmptyInputRejected ==
  [][ /\ (handleSubmitFromText /\ userInput = <<>>) =>
           /\ error' = Some(EmptyTextMessage)
           /\ UNCHANGED <<scriptReqs, audioReqs, reads>>
      /\ handleFileChange(<<>>) =>
           /\ error' = Some(NoFilesMessage)
           /\ UNCHANGED <<scriptReqs, audioReqs, reads>>
    ]_vars

\* the empty text area was submitted while an audio request was pending
C5_Witness ==
  /\ userInput = <<>>
  /\ error = Some(EmptyTextMessage)
  /\ InFlightAudio = 1
  /\ InFlightScript = 0

\* whether the ScriptResult holds a script that is not empty
HasScript == scriptData # Null /\ scriptData[1].script # ""

\* C6: handleGenerateAudio without a ScriptResult that has a non-empty
\* script issues no request and sets the validation message; every
\* /generate-audio request that is issued carries the non-empty script of the
\* ScriptResult of the state it was triggered in.
C6_AudioNeedsScript ==
  [][ /\ (handleGenerateAudio /\ ~HasScript) =>
           /\ error' = Some(NoScriptMessage)
           /\ UNCHANGED <<scriptReqs, audioReqs>>
      /\ (InFlightAudio' > InFlightAudio) =>
           /\ HasScript
           /\ audioReqs' = audioReqs (+) SetToBag({[script |-> scriptData[1].script]})
    ]_vars

\* audio was asked for a ScriptResult whose script is empty
C6_Witness ==
  /\ scriptData # Null
  /\ scriptData[1].script = ""
  /\ error = Some(NoScriptMessage)
  /\ InFlightAudio = 0

\* the request the text path issues for the text area's content
TextRequest(sourceType) == [source_type |-> sourceType, content |-> userInput]

\* C7: a submit of a non-empty input that contains "github.com/" sends
\* source_type github, however many tokens the input has.
C7_GithubFirst ==
  [][ (handleSubmitFromText /\ userInput # <<>> /\ Includes(userInput, Needle)) =>
        scriptReqs' = scriptReqs (+) SetToBag({TextRequest("github")})
    ]_vars

\* a github request is pending whose content splits into more than
\* WordThreshold pieces
C7_Witness ==
  \E r \in BagToSet(scriptReqs) :
    /\ r.source_type = "github"
    /\ Len(Split(r.content)) > WordThreshold

\* the whitespace-delimited tokens of a string: its maximal runs of
\* characters that are not whitespace
TokenCount(text) ==
  Cardinality({ i \in 1..Len(text) :
                  text[i] \notin Whitespace /\ (i = 1 \/ text[i - 1] \in Whitespace) })

\* C8: a submit of a non-empty input without "github.com/" sends source_type
\* script when the input has more than 50 whitespace-delimited tokens and
\* topic otherwise, leading and trailing whitespace notwithstanding.
C8_TokenRule ==
  [][ (handleSubmitFromText /\ userInput # <<>> /\ ~Includes(userInput, Needle)) =>
        scriptReqs' = scriptReqs (+)
          SetToBag({TextRequest(IF TokenCount(userInput) > WordThreshold
                                THEN "script" ELSE "topic")})
    ]_vars

\* the payload of a selection: the sections of its files in selection
\* order, a blank line between them
RECURSIVE Payload(_)
Payload(files) ==
  IF Len(files) = 0 THEN <<>>
  ELSE <<"--- CONTENT FROM ", files[1].name, " ---", "\n", files[1].text>>
         \o (IF Len(files) = 1 THEN <<>> ELSE <<"\n", "\n">> \o Payload(Tail(files)))

\* C9: the step that starts the reads of a selection issues no request; a
\* read that completes issues none while a read of its selection is pending,
\* and when it is the last of reads that all succeeded it issues one request
\* of source_type file whose content is the sections in selection order,
\* whatever order the reads completed in.
C9_JoinInSelectionOrder ==
  [][ /\ BagCardinality(reads') > BagCardinality(reads) => scriptReqs' = scriptReqs
      /\ \A sel \in BagToSet(reads) : \A i \in 1..Len(sel.files) :
           (reads' # reads /\ ReadLoad(sel, i)) =>
             IF \A j \in 1..Len(sel.files) : j = i \/ sel.results[j].state = "resolved"
             THEN scriptReqs' = scriptReqs (+)
                    SetToBag({[source_type |-> "file", content |-> Payload(sel.files)]})
             ELSE scriptReqs' = scriptReqs
    ]_vars

\* the reads of a selection of two files completed in the reverse of the
\* selection order and the request was issued
C9_Witness ==
  /\ lastRead = Some([order |-> <<2, 1>>, rejected |-> {}])
  /\ \E files \in FileLists :
       /\ Len(files) = 2
       /\ scriptReqs = SetToBag({[source_type |-> "file", content |-> Payload(files)]})

\* C10: once a read of a selection has failed, no read event of that
\* selection issues a request, whether it succeeds or fails and in whatever
\* order the reads finish.
C10_FailureAborts ==
  [][ \A sel \in BagToSet(reads) : \A i \in 1..Len(sel.files) :
        (reads' # reads /\ (ReadError(sel, i) \/ (AnyRejected(sel) /\ ReadLoad(sel, i))))
          => scriptReqs' = scriptReqs
    ]_vars

\* the last read of a selection succeeded after another read of it had
\* failed
C10_Witness ==
  /\ lastRead = Some([order |-> <<1, 2>>, rejected |-> {1}])
  /\ scriptReqs = EmptyBag

\* C11: every failure of a user-triggered operation leaves an error message
\* set: a validation failure, a failed file read, a non-success response and
\* a transport failure.
C11_NoErrorSwallowed ==
  [][ /\ (handleSubmitFromText /\ userInput = <<>>) => error' # Null
      /\ handleFileChange(<<>>) => error' # Null
      /\ (handleGenerateAudio /\ ~HasScript) => error' # Null
      /\ \A req \in BagToSet(scriptReqs) : \A outcome \in Outcomes(ScriptBodies) :
           (ScriptDone(req, outcome) /\ outcome.kind # "ok") => error' # Null
      /\ \A req \in BagToSet(audioReqs) : \A outcome \in Outcomes(AudioPaths) :
           (AudioDone(req, outcome) /\ outcome.kind # "ok") => error' # Null
      /\ \A sel \in BagToSet(reads) : \A i \in 1..Len(sel.files) :
           (reads' # reads /\ ReadError(sel, i)) => error' # Null
    ]_vars

\* C12: the step that completes a script- or audio-generation attempt, by
\* success or by any failure, leaves the loading flag of the operation false;
\* and when the backend answers every request, a loading flag that is set
\* eventually becomes false, that is, each flag is false again and again.
C12_LoadingCleared ==
  /\ [][ /\ scriptReqs' # scriptReqs /\ InFlightScript' < InFlightScript
              => ~isLoadingScript'
         /\ audioReqs' # audioReqs /\ InFlightAudio' < InFlightAudio
              => ~isLoadingAudio'
       ]_vars
  /\ []<>(~isLoadingScript)
  /\ []<>(~isLoadingAudio)

\* a script request failed and left the flag false and the error set
C12_Witness ==
  /\ ~isLoadingScript
  /\ InFlightScript = 0
  /\ error = Some(FetchErrorMessage)
  /\ scriptData = Null

\* C13: no step of script generation (start, success, failure) changes
\* isLoadingAudio and no step of audio generation changes isLoadingScript.
C13_FlagsIndependent ==
  [][ /\ scriptReqs' # scriptReqs => isLoadingAudio' = isLoadingAudio
      /\ audioReqs' # audioReqs => isLoadingScript' = isLoadingScript
    ]_vars

\* a script request was started while an audio request was pending, and
\* completed: exactly one flag, the audio flag, is true
C13_Witness ==
  /\ isLoadingAudio
  /\ ~isLoadingScript
  /\ InFlightAudio = 1
  /\ InFlightScript = 0
  /\ error = Some(ScriptFallback)

\* C14: in every reachable state, if audioUrl is present then scriptData is
\* present.
C14_AudioImpliesScript == audioUrl # Null => scriptData # Null

\* the four conditions of C15 that hold in the current state
UiConditions ==
  { c \in {"loading-script", "loading-audio", "error", "ready"} :
      \/ c = "loading-script" /\ isLoadingScript
      \/ c = "loading-audio" /\ isLoadingAudio
      \/ c = "error" /\ error # Null
      \/ c = "ready" /\ scriptData # Null }

\* C15 as stated: in every reachable state at most one of isLoadingScript,
\* isLoadingAudio, an error message set and a ScriptResult present holds.
C15_MutuallyExclusive == Cardinality(UiConditions) <= 1

\* C15 as amended: in every reachable state isLoadingScript and a present
\* ScriptResult do not hold together.
C15_LoadingScriptExcludesReady == ~(isLoadingScript /\ scriptData # Null)

\* a new script request is loading while the audio request of the previous
\* ScriptResult, now cleared, is still pending
C15_Witness ==
  /\ isLoadingScript
  /\ scriptData = Null
  /\ isLoadingAudio
  /\ InFlightAudio = 1

\* C16: in every reachable state isLoadingScript is true exactly when a
\* /generate-script request is in flight, and isLoadingAudio exactly when a
\* /generate-audio request is in flight.
C16_FlagsTrackRequests ==
  /\ isLoadingScript <=> InFlightScript > 0
  /\ isLoadingAudio <=> InFlightAudio > 0

====
